---------------------------- MODULE Spec2Model ----------------------------
(***************************************************************************)
(* Product quantization (src/src/pq.rs, src/src/pq/gaussian_opq.rs).       *)
(*                                                                         *)
(* Three state machines share this module:                                 *)
(*   SpecBucket  bucket_eigenvalues, one action per phase / loop iteration *)
(*   SpecApply   quantize / reconstruct calls on a constructed model       *)
(*   SpecTrain   PQ::train_using and GaussianOPQ::train_using              *)
(*                                                                         *)
(* Floating point values are represented by integers.  Eigenvalues are     *)
(* counted in units of 1/EigenUnit; logarithms are fixed point binary      *)
(* logarithms with FracBits fractional bits (ln and log2 differ by a       *)
(* positive factor, which no comparison of the code can observe).          *)
(* Rust indices are 0-based; sequences here are 1-based, so element i of   *)
(* a Rust array is s[i + 1].                                               *)
(***************************************************************************)
EXTENDS Integers, Sequences, FiniteSets, TLC

VARIABLES
    \* ---- bucket_eigenvalues (pq.rs 397-458)
    eigenvalues,         \* argument: sequence of eigenvalues (units of 1/EigenUnit)
    n_buckets,           \* argument
    bpc,                 \* position: "entry", "sort", "assign", "returned", "panicked"
    panic_msg,           \* message of the assertion that failed, "" if none
    eigenvalue_indices,  \* the sorted index vector, popped from the back
    log_eigenvalues,     \* the shadowing `eigenvalues` of line 429/438
    assignments,         \* Vec<Vec<usize>>
    products,            \* Vec<A>
    sort_result,         \* history: eigenvalue_indices as the sort left it
    iterations_done      \* history: number of completed loop iterations

bucketVars == <<eigenvalues, n_buckets, bpc, panic_msg, eigenvalue_indices,
                log_eigenvalues, assignments, products, sort_result,
                iterations_done>>

VARIABLES
    \* ---- the quantizer model and the calls on it (pq.rs 65-68, 198-201, 359-395)
    kind,                \* "PQ" (struct PQ) or "OPQ" (struct GaussianOPQ)
    projection,          \* GaussianOPQ::projection, rows of a D x D matrix; <<>> for PQ
    quantizer_len,       \* PQ::quantizer_len
    quantizers,          \* PQ::quantizers: codebooks, each a sequence of centroid rows
    constructed,         \* history: the model as constructed
    call                 \* the last call: [op, arg, ok, ret, code]

applyVars == <<kind, projection, quantizer_len, quantizers, constructed, call>>

VARIABLES
    \* ---- training: PQ::train_using (246-284), GaussianOPQ::train_using (114-145)
    trainer,             \* the entry point called: "PQ" or "OPQ"
    n_subquantizers,     \* argument
    n_subquantizer_bits, \* argument
    n_iterations,        \* argument
    n_attempts,          \* argument
    instances,           \* argument: the rows of the instance matrix
    rng,                 \* argument: the state of the caller's random number stream
    n_threads,           \* size of the thread pool the parallel iterator runs on
    tpc,                 \* position: "entry", "project", "pq_entry", "draw", "train",
                         \*           "done", "panicked"
    seed,                \* history: rng at the call
    train_instances,     \* `instances` of PQ::train_using (rx for GaussianOPQ)
    local_projection,    \* `projection` of GaussianOPQ::train_using, line 133
    initial_quantizers,  \* `quantizers` of line 265
    running,             \* subquantizers whose job a worker is executing
    results,             \* idx -> the codebook job idx returned
    finish_order,        \* history: the jobs in the order they completed
    work,                \* history: numeric work done, by kind
    checks_passed        \* history: calls of check_quantizer_invariants that returned

trainVars == <<trainer, n_subquantizers, n_subquantizer_bits, n_iterations, n_attempts,
               instances, rng, n_threads, tpc, seed, train_instances, local_projection,
               initial_quantizers, running, results, finish_order, work, checks_passed>>

VARIABLES
    \* ---- create_projection_matrix (pq.rs 460-490)
    eigen_vectors,       \* the eigenvectors eigh returned (line 473): column k is
                         \* eigenvector k; rows of a D x D matrix
    transformations      \* the matrix of line 481, once its columns are assigned

projectVars == <<eigen_vectors, transformations>>

vars == <<bucketVars, applyVars, trainVars, projectVars>>

-----------------------------------------------------------------------------
(* Bounds of the exploration *)
MaxD == 4
MaxEig == 2
MaxCoord == 1
MaxRows == 2
MaxSub == 3
MaxBits == 1
MaxIter == 1
MaxAttempts == 2
MaxSeed == 1
MaxThreads == 2

(* Representation of floating point numbers *)
EigenUnit == 10
EpsilonLog2 == -52
FracBits == 8
MantBits == 14

(* The modulus of the random number stream *)
RngModulus == 16

-----------------------------------------------------------------------------
(* Generic helpers *)

RECURSIVE Pow2(_)
Pow2(n) == IF n = 0 THEN 1 ELSE 2 * Pow2(n - 1)

RECURSIVE SumSeq(_)
SumSeq(s) == IF s = <<>> THEN 0 ELSE Head(s) + SumSeq(Tail(s))

RECURSIVE Flatten(_)
Flatten(ss) == IF ss = <<>> THEN <<>> ELSE Head(ss) \o Flatten(Tail(ss))

SeqRange(s) == {s[i] : i \in DOMAIN s}

SeqsUpTo(S, n) == UNION {[1..k -> S] : k \in 0..n}

\* Iterator::min_by_key over the positions `cand` of `keys`: the first minimum.
FirstMinPos(cand, keys) ==
    CHOOSE i \in cand :
        /\ \A j \in cand : keys[i] <= keys[j]
        /\ \A j \in cand : keys[j] = keys[i] => i <= j

-----------------------------------------------------------------------------
(* Fixed point logarithm: the model of `(v + A::epsilon()).ln()` *)

RECURSIVE FloorLog2(_)
FloorLog2(v) == IF v < 2 THEN 0 ELSE 1 + FloorLog2(v \div 2)

\* v scaled to a mantissa in [2^MantBits, 2^(MantBits+1))
Mantissa(v) ==
    LET n == FloorLog2(v)
    IN  IF n <= MantBits THEN v * Pow2(MantBits - n) ELSE v \div Pow2(n - MantBits)

\* The fractional bits, by repeated squaring of the mantissa: FracLog2 squares,
\* FracBit emits one bit and renormalises.
RECURSIVE FracLog2(_, _), FracBit(_, _)
FracLog2(m, bits) ==
    IF bits = 0 THEN 0 ELSE FracBit((m * m) \div Pow2(MantBits), bits)

FracBit(sq, bits) ==
    IF sq >= Pow2(MantBits + 1)
    THEN Pow2(bits - 1) + FracLog2(sq \div 2, bits - 1)
    ELSE FracLog2(sq, bits - 1)

Log2Fix(v) == FloorLog2(v) * Pow2(FracBits) + FracLog2(Mantissa(v), FracBits)

\* log of (v / EigenUnit + epsilon); epsilon is only visible at v = 0
LnEps(v) ==
    IF v = 0 THEN EpsilonLog2 * Pow2(FracBits)
    ELSE Log2Fix(v) - Log2Fix(EigenUnit)

-----------------------------------------------------------------------------
(* bucket_eigenvalues, pq.rs 397-458 *)

\* Mutant: the divisibility assertion of lines 410-414 is missing.
SizeAssertionNoDivisibility(len, nb) ==
    IF ~(nb > 0) THEN "Cannot distribute eigenvalues over zero buckets."
    ELSE IF ~(len >= nb) THEN "At least one eigenvalue is required per bucket"
    ELSE ""

\* The three size assertions of lines 402-414, in order: the message of the
\* first one that fails, "" when all hold.
SizeAssertion(len, nb) ==
    IF ~(nb > 0) THEN "Cannot distribute eigenvalues over zero buckets."
    ELSE IF ~(len >= nb) THEN "At least one eigenvalue is required per bucket"
    ELSE IF len % nb # 0
         THEN "The number of eigenvalues should be a multiple of the number of buckets."
    ELSE ""

\* Lines 416-418.  sort_unstable_by orders the indices by ascending
\* eigenvalue; the order of indices with equal eigenvalues is unspecified,
\* so every ascending order is a possible outcome.
RECURSIVE AscendingOrders(_, _)
AscendingOrders(S, ev) ==
    IF S = {} THEN {<<>>}
    ELSE UNION { { <<i>> \o p : p \in AscendingOrders(S \ {i}, ev) } :
                 i \in { i \in S : \A j \in S : ev[i + 1] <= ev[j + 1] } }

SortedIndices(ev) == AscendingOrders(0..(Len(ev) - 1), ev)

\* Line 423-426: the assertion on the smallest eigenvalue.
NegativeAssertion(ev, order) ==
    IF ev[order[1] + 1] >= 0 THEN ""
    ELSE "Bucketing is only supported for positive eigenvalues."

\* Line 429: the eigenvalues in log-space.
LogSpace(ev) == [i \in DOMAIN ev |-> LnEps(ev[i])]

\* Lines 433-437: the smallest log value.
Smallest(logs) == CHOOSE v \in SeqRange(logs) : \A w \in SeqRange(logs) : v <= w

\* Line 438.
ShiftBy(logs, smallest) == [i \in DOMAIN logs |-> logs[i] - smallest]

ShiftLogs(logs) == ShiftBy(logs, Smallest(logs))

\* Lines 429-438: log-space, then shifted by the smallest log value.
LogShifted(ev) == ShiftLogs(LogSpace(ev))

\* Mutant: a bucket may take one index more.
MaxAssignmentsOneMore(len, nb) == len \div nb + 1

\* Line 442.
MaxAssignments(len, nb) == len \div nb

\* Mutant: the filter of line 449 is missing.
AllBuckets(asg, cap) == DOMAIN asg

\* Line 449: the positions of the buckets that are not full.
NonFullBuckets(asg, cap) == { b \in DOMAIN asg : Len(asg[b]) < cap }

\* Mutant: the last minimum instead of the first (max_by_key's tie rule).
ChooseBucketLastMin(asg, prods, cap) ==
    CHOOSE i \in NonFullBuckets(asg, cap) :
        /\ \A j \in NonFullBuckets(asg, cap) : prods[i] <= prods[j]
        /\ \A j \in NonFullBuckets(asg, cap) : prods[j] = prods[i] => j <= i

\* Lines 446-451: the first non-full bucket with the smallest product.
ChooseBucket(asg, prods, cap) == FirstMinPos(NonFullBuckets(asg, cap), prods)

BucketInit ==
    /\ bpc = "entry"
    /\ panic_msg = ""
    /\ eigenvalue_indices = <<>>
    /\ log_eigenvalues = <<>>
    /\ assignments = <<>>
    /\ products = <<>>
    /\ sort_result = <<>>
    /\ iterations_done = 0

\* Lines 402-414.
CheckSizes ==
    /\ UNCHANGED <<applyVars, trainVars, projectVars>>
    /\ bpc = "entry"
    /\ LET msg == SizeAssertion(Len(eigenvalues), n_buckets)
       IN  /\ panic_msg' = msg
           /\ bpc' = IF msg = "" THEN "sort" ELSE "panicked"
    /\ UNCHANGED <<eigenvalues, n_buckets, eigenvalue_indices, log_eigenvalues,
                   assignments, products, sort_result, iterations_done>>

\* Lines 416-442.
SortAndShift ==
    /\ UNCHANGED <<applyVars, trainVars, projectVars>>
    /\ bpc = "sort"
    /\ \E order \in SortedIndices(eigenvalues) :
         LET msg == NegativeAssertion(eigenvalues, order)
         IN  /\ eigenvalue_indices' = order
             /\ sort_result' = order
             /\ panic_msg' = msg
             /\ IF msg # ""
                THEN /\ bpc' = "panicked"
                     /\ UNCHANGED <<log_eigenvalues, assignments, products>>
                ELSE /\ bpc' = "assign"
                     /\ log_eigenvalues' = LogShifted(eigenvalues)
                     /\ assignments' = [b \in 1..n_buckets |-> <<>>]
                     /\ products' = [b \in 1..n_buckets |-> 0]
    /\ UNCHANGED <<eigenvalues, n_buckets, iterations_done>>

\* Lines 444-455: one iteration of the while-let loop.
AssignStep ==
    /\ UNCHANGED <<applyVars, trainVars, projectVars>>
    /\ bpc = "assign"
    /\ eigenvalue_indices # <<>>
    /\ LET n == Len(eigenvalue_indices)
           eigenvalue_idx == eigenvalue_indices[n]
           cap == MaxAssignments(Len(eigenvalues), n_buckets)
       IN  /\ eigenvalue_indices' = SubSeq(eigenvalue_indices, 1, n - 1)
           /\ IF NonFullBuckets(assignments, cap) = {}
              THEN \* min_by_key yields None and unwrap panics
                   /\ bpc' = "panicked"
                   /\ panic_msg' = "called Option::unwrap() on a None value"
                   /\ UNCHANGED <<assignments, products, iterations_done>>
              ELSE LET idx == ChooseBucket(assignments, products, cap)
                   IN  /\ assignments' =
                             [assignments EXCEPT ![idx] = Append(@, eigenvalue_idx)]
                       /\ products' =
                             [products EXCEPT ![idx] = @ + log_eigenvalues[eigenvalue_idx + 1]]
                       /\ iterations_done' = iterations_done + 1
                       /\ UNCHANGED <<bpc, panic_msg>>
    /\ UNCHANGED <<eigenvalues, n_buckets, log_eigenvalues, sort_result>>

\* Line 444 with the index vector empty, then line 457.
ReturnAssignments ==
    /\ UNCHANGED <<applyVars, trainVars, projectVars>>
    /\ bpc = "assign"
    /\ eigenvalue_indices = <<>>
    /\ bpc' = "returned"
    /\ UNCHANGED <<eigenvalues, n_buckets, panic_msg, eigenvalue_indices,
                   log_eigenvalues, assignments, products, sort_result,
                   iterations_done>>

\* The eigenvalue vectors of the tests (lines 662, 671, 682), and vectors of
\* six eigenvalues for which sums of logarithms decide the bucket.
TestEigenvalues ==
    { <<2, 6, 4, 1, 3, 5>>,
      <<111740, 234500, 308350, 15570, 324250, 51540>>,
      <<80, 40, 40, 20, 10, 10>>,
      <<0, 90, 10, 30, 30, 100>>,
      <<7, 7, 6, 5, 1, 0>> }

EigenvalueInputs == SeqsUpTo((-1)..MaxEig, MaxD) \cup TestEigenvalues

ProjectIdle ==
    /\ eigen_vectors = <<>>
    /\ transformations = <<>>

TrainIdle ==
    /\ trainer = "PQ"
    /\ n_subquantizers = 0
    /\ n_subquantizer_bits = 0
    /\ n_iterations = 0
    /\ n_attempts = 0
    /\ instances = <<>>
    /\ rng = 0
    /\ n_threads = 0
    /\ tpc = "idle"
    /\ seed = 0
    /\ train_instances = <<>>
    /\ local_projection = <<>>
    /\ initial_quantizers = <<>>
    /\ running = {}
    /\ results = <<>>
    /\ finish_order = <<>>
    /\ work = <<>>
    /\ checks_passed = 0

ApplyIdle ==
    /\ kind = "PQ"
    /\ projection = <<>>
    /\ quantizer_len = 0
    /\ quantizers = <<>>
    /\ constructed = <<>>
    /\ call = <<>>

InitBucket ==
    /\ eigenvalues \in EigenvalueInputs
    /\ n_buckets \in 0..(Len(eigenvalues) + 1)
    /\ BucketInit
    /\ ApplyIdle
    /\ TrainIdle
    /\ ProjectIdle

NextBucket == CheckSizes \/ SortAndShift \/ AssignStep \/ ReturnAssignments

SpecBucket == InitBucket /\ [][NextBucket]_vars

-----------------------------------------------------------------------------
(* The quantizer model: quantize / reconstruct, pq.rs 148-190, 359-395, 516-617 *)

\* The outcome of a call: a returned value, or a panic.
Ok(v) == [ok |-> TRUE, val |-> v]
Panic == [ok |-> FALSE, val |-> <<>>]

\* An Array2 with a run-time row count: its rows and its column count.
Matrix(rs, c) == [rows |-> rs, cols |-> c]

\* Array2::cols of a codebook (a codebook always has rows).
Cols(quantizer) == Len(quantizer[1])

\* The value of `offset` of lines 533/561/586 when the loop reaches quantizer m.
Offset(qs, m) == SumSeq([k \in 1..(m - 1) |-> Cols(qs[k])])

SqDist(a, b) == SumSeq([i \in DOMAIN a |-> (a[i] - b[i]) * (a[i] - b[i])])

\* crate::kmeans::cluster_assignment: the index of the nearest centroid by
\* Euclidean distance, the lowest index on ties.
cluster_assignment(centroids, v) ==
    FirstMinPos(DOMAIN centroids, [r \in DOMAIN centroids |-> SqDist(centroids[r], v)]) - 1

\* crate::kmeans::cluster_assignments along Axis(0): one assignment per row.
cluster_assignments(centroids, rs) ==
    [i \in DOMAIN rs |-> cluster_assignment(centroids, rs[i])]

\* ndarray's dot of a vector and a matrix given by its rows.
Dot(x, mat) ==
    [j \in 1..Len(mat[1]) |-> SumSeq([i \in DOMAIN x |-> x[i] * mat[i][j]])]

Transpose(mat) == [j \in 1..Len(mat[1]) |-> [i \in DOMAIN mat |-> mat[i][j]]]

\* Mutant: the length assertion of lines 525-529 is missing; only a slice
\* that reaches past the end of x panics.
quantizeNoLenCheck(qs, qlen, x) ==
    IF \E m \in DOMAIN qs : Offset(qs, m) + Cols(qs[m]) > Len(x) THEN Panic
    ELSE Ok([m \in DOMAIN qs |->
               cluster_assignment(qs[m],
                   SubSeq(x, Offset(qs, m) + 1, Offset(qs, m) + Cols(qs[m])))])

\* quantize, lines 516-542.
quantize(qs, qlen, x) ==
    IF qlen # Len(x) THEN Panic
    ELSE IF \E m \in DOMAIN qs : Offset(qs, m) + Cols(qs[m]) > Len(x) THEN Panic
    ELSE Ok([m \in DOMAIN qs |->
               cluster_assignment(qs[m],
                   SubSeq(x, Offset(qs, m) + 1, Offset(qs, m) + Cols(qs[m])))])

\* Mutant: `offset` is never advanced (line 567 missing).
quantize_batchNoOffset(qs, qlen, x) ==
    IF qlen # x.cols THEN Panic
    ELSE Ok(Matrix([i \in DOMAIN x.rows |->
                      [m \in DOMAIN qs |->
                         cluster_assignment(qs[m], SubSeq(x.rows[i], 1, Cols(qs[m])))]],
                   Len(qs)))

\* Column m of the result of quantize_batch, lines 563-565.
QuantizedColumn(qs, x, m) ==
    cluster_assignments(qs[m],
        [i \in DOMAIN x.rows |->
            SubSeq(x.rows[i], Offset(qs, m) + 1, Offset(qs, m) + Cols(qs[m]))])

\* quantize_batch, lines 544-571: the result is filled column by column.
quantize_batch(qs, qlen, x) ==
    IF qlen # x.cols THEN Panic
    ELSE IF \E m \in DOMAIN qs : Offset(qs, m) + Cols(qs[m]) > x.cols THEN Panic
    ELSE Ok(Matrix([i \in DOMAIN x.rows |->
                      [m \in DOMAIN qs |-> QuantizedColumn(qs, x, m)[i]]],
                   Len(qs)))

\* Mutant: every slice is written at offset 0 (line 590 missing), so the last
\* centroid overwrites the first slice and the rest stays zero.
reconstructNoOffset(qs, quantized) ==
    IF Len(qs) # Len(quantized) THEN Panic
    ELSE IF \E m \in DOMAIN qs : quantized[m] >= Len(qs[m]) THEN Panic
    ELSE Ok([j \in 1..(Len(qs) * Cols(qs[1])) |->
               IF j <= Cols(qs[Len(qs)]) THEN qs[Len(qs)][quantized[Len(qs)] + 1][j]
               ELSE 0])

\* reconstruct, lines 573-594.  index_axis panics on a centroid index that is
\* not a row of the codebook, slice_mut on a range past the reconstruction.
reconstruct(qs, quantized) ==
    IF Len(qs) # Len(quantized) THEN Panic
    ELSE IF \E m \in DOMAIN qs : quantized[m] >= Len(qs[m]) THEN Panic
    ELSE IF \E m \in DOMAIN qs :
               Offset(qs, m) + Cols(qs[m]) > Len(qs) * Cols(qs[1]) THEN Panic
    ELSE Ok([j \in 1..(Len(qs) * Cols(qs[1])) |->
               IF \E k \in DOMAIN qs :
                      Offset(qs, k) < j /\ j <= Offset(qs, k) + Cols(qs[k])
               THEN LET m == CHOOSE k \in DOMAIN qs :
                                 Offset(qs, k) < j /\ j <= Offset(qs, k) + Cols(qs[k])
                    IN  qs[m][quantized[m] + 1][j - Offset(qs, m)]
               ELSE 0])

\* reconstruct_batch, lines 596-617.
reconstruct_batch(qs, quantized) ==
    IF Len(qs) # quantized.cols THEN Panic
    ELSE IF \E i \in DOMAIN quantized.rows : ~reconstruct(qs, quantized.rows[i]).ok
         THEN Panic
    ELSE Ok(Matrix([i \in DOMAIN quantized.rows |-> reconstruct(qs, quantized.rows[i]).val],
                   Len(qs) * Cols(qs[1])))

\* The trait methods of PQ (lines 359-395) and GaussianOPQ (lines 148-190).
\* ndarray's dot panics when the inner dimensions differ.
quantize_vector(k, proj, qs, qlen, x) ==
    IF k = "PQ" THEN quantize(qs, qlen, x)
    ELSE IF Len(x) # Len(proj) THEN Panic
    ELSE quantize(qs, qlen, Dot(x, proj))

quantize_batch_of(k, proj, qs, qlen, x) ==
    IF k = "PQ" THEN quantize_batch(qs, qlen, x)
    ELSE IF x.cols # Len(proj) THEN Panic
    ELSE quantize_batch(qs, qlen,
            Matrix([i \in DOMAIN x.rows |-> Dot(x.rows[i], proj)], Len(proj[1])))

DotResult(res, mat) == IF res.ok THEN Ok(Dot(res.val, mat)) ELSE Panic

DotBatchResult(res, mat) ==
    IF res.ok
    THEN Ok(Matrix([i \in DOMAIN res.val.rows |-> Dot(res.val.rows[i], mat)], Len(mat[1])))
    ELSE Panic

reconstruct_vector(k, proj, qs, quantized) ==
    IF k = "PQ" THEN reconstruct(qs, quantized)
    ELSE IF Len(qs) * Cols(qs[1]) # Len(proj[1]) THEN Panic
    ELSE DotResult(reconstruct(qs, quantized), Transpose(proj))

reconstruct_batch_of(k, proj, qs, quantized) ==
    IF k = "PQ" THEN reconstruct_batch(qs, quantized)
    ELSE IF Len(qs) * Cols(qs[1]) # Len(proj[1]) THEN Panic
    ELSE DotBatchResult(reconstruct_batch(qs, quantized), Transpose(proj))

-----------------------------------------------------------------------------
(* Models and inputs of the calls *)

\* Coordinates of the vectors to quantize, and of the centroids
Coords == 0..MaxCoord
CentroidCoords == {0, 1}

\* (number of subquantizers, slice dimension, codebook length) of the models
Shapes == { <<1, 2, 2>>, <<2, 1, 2>> }

Codebooks(cols, len) == [1..len -> [1..cols -> CentroidCoords]]

\* Rotations that integers can represent exactly: the permutation matrices.
RECURSIVE Perms(_)
Perms(S) ==
    IF S = {} THEN {<<>>}
    ELSE UNION { { <<i>> \o q : q \in Perms(S \ {i}) } : i \in S }

PermutationMatrices(d) ==
    { [i \in 1..d |-> [j \in 1..d |-> IF q[j] = i THEN 1 ELSE 0]] : q \in Perms(1..d) }

Models ==
    UNION { { [kind |-> "PQ", projection |-> <<>>, quantizer_len |-> sh[1] * sh[2],
               quantizers |-> qs] : qs \in [1..sh[1] -> Codebooks(sh[2], sh[3])] }
            \cup
            { [kind |-> "OPQ", projection |-> pm, quantizer_len |-> sh[1] * sh[2],
               quantizers |-> qs] :
                 qs \in [1..sh[1] -> Codebooks(sh[2], sh[3])],
                 pm \in PermutationMatrices(sh[1] * sh[2]) }
            : sh \in Shapes }

\* Vectors to quantize: every length up to one more than the model's.
VectorInputs(d) == SeqsUpTo(Coords, d + 1)

\* Codes: every length up to M + 1, entries up to one past the codebook.
CodeInputs(m, len) == SeqsUpTo(0..len, m + 1)

\* Batches: up to MaxRows rows of the right length or one less, and single
\* rows one longer.
BatchesOf(S, width) ==
    UNION { { Matrix(rs, c) : rs \in SeqsUpTo([1..c -> S], MaxRows) } :
            c \in {width - 1, width} \ {0} }
    \cup { Matrix(<<r>>, width + 1) : r \in [1..(width + 1) -> S] }

NoCall == [op |-> "none", arg |-> <<>>, ok |-> TRUE, ret |-> <<>>, code |-> <<>>]

Called(op, arg, res, code) ==
    [op |-> op, arg |-> arg, ok |-> res.ok, ret |-> res.val, code |-> code]

CurrentModel ==
    [kind |-> kind, projection |-> projection, quantizer_len |-> quantizer_len,
     quantizers |-> quantizers]

\* Every method takes &self: the model is not written.
ModelUnchanged == UNCHANGED <<kind, projection, quantizer_len, quantizers, constructed>>

QuantizeVectorCall ==
    /\ call.op = "none"
    /\ \E x \in VectorInputs(quantizer_len) :
         call' = Called("quantize_vector", x,
                        quantize_vector(kind, projection, quantizers, quantizer_len, x),
                        <<>>)
    /\ ModelUnchanged
    /\ UNCHANGED <<bucketVars, trainVars, projectVars>>

\* quantize_vector applied to what the last reconstruct_vector returned.
RequantizeCall ==
    /\ call.op = "reconstruct_vector"
    /\ call.ok
    /\ call' = Called("quantize_vector", call.ret,
                      quantize_vector(kind, projection, quantizers, quantizer_len, call.ret),
                      call.arg)
    /\ ModelUnchanged
    /\ UNCHANGED <<bucketVars, trainVars, projectVars>>

QuantizeBatchCall ==
    /\ call.op = "none"
    /\ \E x \in BatchesOf(Coords, quantizer_len) :
         call' = Called("quantize_batch", x,
                        quantize_batch_of(kind, projection, quantizers, quantizer_len, x),
                        <<>>)
    /\ ModelUnchanged
    /\ UNCHANGED <<bucketVars, trainVars, projectVars>>

ReconstructVectorCall ==
    /\ call.op = "none"
    /\ \E c \in CodeInputs(Len(quantizers), Len(quantizers[1])) :
         call' = Called("reconstruct_vector", c,
                        reconstruct_vector(kind, projection, quantizers, c), <<>>)
    /\ ModelUnchanged
    /\ UNCHANGED <<bucketVars, trainVars, projectVars>>

ReconstructBatchCall ==
    /\ call.op = "none"
    /\ \E c \in BatchesOf(0..Len(quantizers[1]), Len(quantizers)) :
         call' = Called("reconstruct_batch", c,
                        reconstruct_batch_of(kind, projection, quantizers, c), <<>>)
    /\ ModelUnchanged
    /\ UNCHANGED <<bucketVars, trainVars, projectVars>>

\* The caller drops the returned value (or has caught the panic); the model
\* is ready for the next call.
DiscardResult ==
    /\ call.op # "none"
    /\ call' = NoCall
    /\ ModelUnchanged
    /\ UNCHANGED <<bucketVars, trainVars, projectVars>>

BucketIdle ==
    /\ eigenvalues = <<>>
    /\ n_buckets = 0
    /\ BucketInit

InitApply ==
    /\ \E mdl \in Models :
         /\ kind = mdl.kind
         /\ projection = mdl.projection
         /\ quantizer_len = mdl.quantizer_len
         /\ quantizers = mdl.quantizers
         /\ constructed = mdl
    /\ call = NoCall
    /\ BucketIdle
    /\ TrainIdle
    /\ ProjectIdle

NextApply ==
    \/ QuantizeVectorCall
    \/ RequantizeCall
    \/ QuantizeBatchCall
    \/ ReconstructVectorCall
    \/ ReconstructBatchCall
    \/ DiscardResult

SpecApply == InitApply /\ [][NextApply]_vars

-----------------------------------------------------------------------------
(* Training: PQ::train_using (246-284), GaussianOPQ::train_using (114-145) *)

\* An owned array: the elements of f, computed once.
Vec(f) == f \o <<>>

\* The random number stream behind `rng`: a linear congruential generator.
RngNext(s) == (s * 5 + 3) % RngModulus

RECURSIVE RngAdvance(_, _)
RngAdvance(s, n) == IF n = 0 THEN s ELSE RngAdvance(RngNext(s), n - 1)

\* Columns [offset, offset + width) of a matrix given by its rows: the slice
\* s![.., offset..offset + width] of lines 335 and 510.
ColumnSlice(rs, offset, width) ==
    Vec([i \in DOMAIN rs |-> SubSeq(rs[i], offset + 1, offset + width)])

\* RandomInstanceCentroids::initial_centroids: k instances of the slice,
\* each picked by the next value of the stream.
SelectCentroids(rs, k, s) ==
    Vec([r \in 1..k |-> rs[(RngAdvance(s, r) % Len(rs)) + 1]])

\* Mutant: the stream is copied, not borrowed: every draw starts from the
\* state the caller passed in.
RngAfterDrawStuck(s, k) == s

\* The state of the stream after one call of the selector for k centroids.
RngAfterDraw(s, k) == RngAdvance(s, k)

\* The update of a k-means round, asg[i] being the centroid instance i is
\* assigned to: every centroid becomes the mean of its instances; a centroid
\* without instances stays.
KMeansUpdate(cents, rs, asg) ==
    Vec([r \in DOMAIN cents |->
        IF \A i \in DOMAIN rs : asg[i] # r - 1 THEN cents[r]
        ELSE Vec([j \in DOMAIN cents[r] |->
                SumSeq([i \in DOMAIN rs |-> IF asg[i] = r - 1 THEN rs[i][j] ELSE 0])
                    \div SumSeq([i \in DOMAIN rs |-> IF asg[i] = r - 1 THEN 1 ELSE 0])])])

\* One k-means round: assignment, then update.
KMeansRound(cents, rs) ==
    KMeansUpdate(cents, rs, Vec([i \in DOMAIN rs |-> cluster_assignment(cents, rs[i])]))

RECURSIVE KMeansRun(_, _, _)
KMeansRun(cents, rs, n) ==
    IF n = 0 THEN cents ELSE KMeansRun(KMeansRound(cents, rs), rs, n - 1)

\* The loss: the sum of the squared distances to the assigned centroids.
KMeansLoss(cents, rs) ==
    SumSeq([i \in DOMAIN rs |->
              SqDist(cents[cluster_assignment(cents, rs[i]) + 1], rs[i])])

\* What one attempt yields (line 345): the loss and the trained centroids.
Attempt(cents, rs) == [quantizer |-> cents, loss |-> KMeansLoss(cents, rs)]

\* kmeans_with_centroids with NIterationsCondition(n): the centroids after n
\* rounds, and the loss.
kmeans_with_centroids(rs, cents, n) == Attempt(KMeansRun(cents, rs, n), rs)

\* Mutant: the attempts assertion (lines 310-313) is missing.
check_quantizer_invariantsNoAttempts(nsub, bits, iters, attempts, cols) ==
    IF ~(nsub > 0 /\ nsub <= cols)
    THEN "The number of subquantizers should at least be 1 and at most be cols."
    ELSE IF ~(bits > 0) THEN "Number of quantizer bits should at least be one."
    ELSE IF cols % nsub # 0
         THEN "The number of subquantizers should evenly divide each instance."
    ELSE IF ~(iters > 0)
         THEN "The subquantizers should be optimized for at least one iteration."
    ELSE ""

\* check_quantizer_invariants, lines 286-314: the message of the first
\* assertion that fails, "" when all hold.
check_quantizer_invariants(nsub, bits, iters, attempts, cols) ==
    IF ~(nsub > 0 /\ nsub <= cols)
    THEN "The number of subquantizers should at least be 1 and at most be cols."
    ELSE IF ~(bits > 0) THEN "Number of quantizer bits should at least be one."
    ELSE IF cols % nsub # 0
         THEN "The number of subquantizers should evenly divide each instance."
    ELSE IF ~(iters > 0)
         THEN "The subquantizers should be optimized for at least one iteration."
    ELSE IF ~(attempts > 0)
         THEN "The subquantizers should be optimized for at least one attempt."
    ELSE ""

\* The closure of lines 508-512 for subquantizer sq, the stream in state s.
InitialCentroidsFor(sq, nsub, codebook_len, rs, s) ==
    SelectCentroids(ColumnSlice(rs, sq * (Len(rs[1]) \div nsub), Len(rs[1]) \div nsub),
                    codebook_len, s)

\* The attempts of lines 337-346: each starts from a copy of `quantizer`.
Attempts(quantizer, sq_instances, iters, attempts) ==
    Vec([a \in 1..attempts |-> kmeans_with_centroids(sq_instances, quantizer, iters)])

\* Lines 347-350: min_by_key over the attempts, the first of the least loss.
BestAttempt(tried) ==
    tried[FirstMinPos(DOMAIN tried, Vec([a \in DOMAIN tried |-> tried[a].loss]))].quantizer

\* train_subquantizer, lines 321-351 (called with n_attempts > 0).
train_subquantizer(idx, quantizer, iters, attempts, rs) ==
    BestAttempt(Attempts(quantizer, ColumnSlice(rs, idx * Cols(quantizer), Cols(quantizer)),
                         iters, attempts))

\* Mutant: the results are gathered in the order the jobs completed.
CollectByCompletion(res, order) == [m \in DOMAIN order |-> res[order[m]]]

\* Lines 272-278: enumerate().map().collect() of an indexed parallel iterator
\* puts the result of job idx at position idx.
Collect(res, order) == [m \in DOMAIN order |-> res[m - 1]]

\* bucket_eigenvalues (397-458) as a function of its arguments and of the
\* outcome of the sort.
RECURSIVE AssignAll(_, _, _, _, _)
AssignAll(order, logs, asg, prods, cap) ==
    IF order = <<>> THEN Ok(asg)
    ELSE IF NonFullBuckets(asg, cap) = {} THEN Panic
    ELSE AssignAll(SubSeq(order, 1, Len(order) - 1), logs,
                   [asg EXCEPT ![ChooseBucket(asg, prods, cap)] =
                        Append(@, order[Len(order)])],
                   [prods EXCEPT ![ChooseBucket(asg, prods, cap)] =
                        @ + logs[order[Len(order)] + 1]],
                   cap)

bucket_eigenvalues(ev, nb, order) ==
    IF SizeAssertion(Len(ev), nb) # "" THEN Panic
    ELSE IF NegativeAssertion(ev, order) # "" THEN Panic
    ELSE AssignAll(order, LogShifted(ev), [b \in 1..nb |-> <<>>],
                   [b \in 1..nb |-> 0], MaxAssignments(Len(ev), nb))

\* Mutant: the eigenvector at position idx of the flattened buckets is
\* written to the column its own index names.
TransformationsInverse(eigen_vecs, buckets) ==
    Vec([i \in DOMAIN eigen_vecs |->
        Vec([c \in 1..Len(eigen_vecs) |->
                eigen_vecs[i][CHOOSE idx \in 1..Len(eigen_vecs) :
                                  Flatten(buckets)[idx] + 1 = c]])])

\* Lines 482-489: column idx of the result is column direction_idx of the
\* eigenvectors, direction_idx running through the flattened buckets.
Transformations(eigen_vecs, buckets) ==
    Vec([i \in DOMAIN eigen_vecs |->
        Vec([idx \in 1..Len(eigen_vecs) |->
                eigen_vecs[i][Flatten(buckets)[idx] + 1]])])

Identity(d) == [i \in 1..d |-> [j \in 1..d |-> IF i = j THEN 1 ELSE 0]]

\* Outcomes of covariance and eigh for instances of d columns: eigenvalues in
\* any order, slightly negative ones included, with the unit vectors as
\* eigenvectors (the covariance matrix is taken to be diagonal).
EighEigenvalues(d) == [1..d -> {-1, 1, 3}]

NoWork == [covariance |-> 0, eigh |-> 0, select |-> 0, kmeans |-> 0]

TrainInstances ==
    { << <<0, 4>>, <<2, 0>>, <<4, 2>>, <<6, 6>> >>,
      << <<0, 2, 4>>, <<4, 0, 2>>, <<2, 2, 0>>, <<6, 4, 6>> >> }

InitTrain ==
    /\ trainer \in {"PQ", "OPQ"}
    /\ n_subquantizers \in 0..MaxSub
    /\ n_subquantizer_bits \in 0..MaxBits
    /\ n_iterations \in 0..MaxIter
    /\ n_attempts \in 0..MaxAttempts
    /\ instances \in TrainInstances
    /\ rng \in 0..MaxSeed
    /\ n_threads \in 1..MaxThreads
    /\ tpc = "entry"
    /\ seed = rng
    /\ train_instances = <<>>
    /\ local_projection = <<>>
    /\ initial_quantizers = <<>>
    /\ running = {}
    /\ results = <<>>
    /\ finish_order = <<>>
    /\ work = NoWork
    /\ checks_passed = 0
    /\ BucketIdle
    /\ ApplyIdle
    /\ ProjectIdle

TrainPanics ==
    /\ tpc' = "panicked"
    /\ UNCHANGED <<trainer, n_subquantizers, n_subquantizer_bits, n_iterations,
                   n_attempts, instances, rng, n_threads, seed, train_instances,
                   local_projection, initial_quantizers, running, results,
                   finish_order, work, checks_passed>>

\* GaussianOPQ::train_using, lines 125-131.
CheckOPQ ==
    /\ tpc = "entry"
    /\ trainer = "OPQ"
    /\ IF check_quantizer_invariants(n_subquantizers, n_subquantizer_bits, n_iterations,
                                     n_attempts, Len(instances[1])) # ""
       THEN TrainPanics
       ELSE /\ tpc' = "project"
            /\ checks_passed' = checks_passed + 1
            /\ UNCHANGED <<trainer, n_subquantizers, n_subquantizer_bits, n_iterations,
                           n_attempts, instances, rng, n_threads, seed, train_instances,
                           local_projection, initial_quantizers, running, results,
                           finish_order, work>>
    /\ UNCHANGED <<bucketVars, applyVars, projectVars>>

\* GaussianOPQ::train_using, lines 133-134: create_projection_matrix
\* (460-490) and the rotation of the instances.
ProjectOPQ ==
    /\ tpc = "project"
    /\ \E ev \in EighEigenvalues(Len(instances[1])) : \E order \in SortedIndices(ev) :
       \E buckets \in {bucket_eigenvalues(ev, n_subquantizers, order)} :
       \E rotation \in {IF buckets.ok
                         THEN Transformations(Identity(Len(ev)), buckets.val)
                         ELSE <<>>} :
         /\ work' = [work EXCEPT !.covariance = @ + 1, !.eigh = @ + 1]
         /\ IF ~buckets.ok
            THEN /\ tpc' = "panicked"
                 /\ UNCHANGED <<local_projection, train_instances>>
            ELSE /\ tpc' = "pq_entry"
                 /\ local_projection' = rotation
                 /\ train_instances' =
                       Vec([i \in DOMAIN instances |->
                               Vec(Dot(instances[i], rotation))])
    /\ UNCHANGED <<trainer, n_subquantizers, n_subquantizer_bits, n_iterations,
                   n_attempts, instances, rng, n_threads, seed, initial_quantizers,
                   running, results, finish_order, checks_passed>>
    /\ UNCHANGED <<bucketVars, applyVars, projectVars>>

\* PQ::train_using called directly: its instances are the caller's.
EnterPQ ==
    /\ tpc = "entry"
    /\ trainer = "PQ"
    /\ tpc' = "pq_entry"
    /\ train_instances' = instances
    /\ UNCHANGED <<trainer, n_subquantizers, n_subquantizer_bits, n_iterations,
                   n_attempts, instances, rng, n_threads, seed, local_projection,
                   initial_quantizers, running, results, finish_order, work,
                   checks_passed>>
    /\ UNCHANGED <<bucketVars, applyVars, projectVars>>

\* PQ::train_using, lines 257-263.
CheckPQ ==
    /\ tpc = "pq_entry"
    /\ IF check_quantizer_invariants(n_subquantizers, n_subquantizer_bits, n_iterations,
                                     n_attempts, Len(train_instances[1])) # ""
       THEN TrainPanics
       ELSE /\ tpc' = "draw"
            /\ checks_passed' = checks_passed + 1
            /\ UNCHANGED <<trainer, n_subquantizers, n_subquantizer_bits, n_iterations,
                           n_attempts, instances, rng, n_threads, seed, train_instances,
                           local_projection, initial_quantizers, running, results,
                           finish_order, work>>
    /\ UNCHANGED <<bucketVars, applyVars, projectVars>>

\* initial_centroids, lines 506-513: one step of the sequential map, for
\* subquantizer sq = the number of codebooks drawn so far.
DrawInitialCentroids ==
    /\ tpc = "draw"
    /\ Len(initial_quantizers) < n_subquantizers
    /\ initial_quantizers' =
          Append(initial_quantizers,
                 InitialCentroidsFor(Len(initial_quantizers), n_subquantizers,
                                     Pow2(n_subquantizer_bits), train_instances, rng))
    /\ rng' = RngAfterDraw(rng, Pow2(n_subquantizer_bits))
    /\ work' = [work EXCEPT !.select = @ + 1]
    /\ UNCHANGED <<trainer, n_subquantizers, n_subquantizer_bits, n_iterations,
                   n_attempts, instances, n_threads, seed, train_instances,
                   local_projection, running, results, finish_order, tpc,
                   checks_passed>>
    /\ UNCHANGED <<bucketVars, applyVars, projectVars>>

\* Line 272: the codebooks are handed to the parallel iterator.
FanOut ==
    /\ tpc = "draw"
    /\ Len(initial_quantizers) = n_subquantizers
    /\ tpc' = "train"
    /\ UNCHANGED <<trainer, n_subquantizers, n_subquantizer_bits, n_iterations,
                   n_attempts, instances, rng, n_threads, seed, train_instances,
                   local_projection, initial_quantizers, running, results,
                   finish_order, work, checks_passed>>
    /\ UNCHANGED <<bucketVars, applyVars, projectVars>>

\* A worker thread takes the job of subquantizer idx (lines 275-277).
StartJob ==
    /\ tpc = "train"
    /\ Cardinality(running) < n_threads
    /\ \E idx \in 0..(n_subquantizers - 1) :
         /\ idx \notin running
         /\ idx \notin DOMAIN results
         /\ running' = running \cup {idx}
    /\ UNCHANGED <<trainer, n_subquantizers, n_subquantizer_bits, n_iterations,
                   n_attempts, instances, rng, n_threads, seed, train_instances,
                   local_projection, initial_quantizers, results, finish_order, tpc,
                   work, checks_passed>>
    /\ UNCHANGED <<bucketVars, applyVars, projectVars>>

\* The job of subquantizer idx completes: train_subquantizer has returned,
\* or its assertion of line 328 has failed and the panic reaches the caller.
FinishJob ==
    /\ tpc = "train"
    /\ \E idx \in running :
         IF ~(n_attempts > 0)
         THEN /\ tpc' = "panicked"
              /\ UNCHANGED <<running, results, finish_order, work>>
         ELSE /\ running' = running \ {idx}
              /\ results' = (idx :> train_subquantizer(idx, initial_quantizers[idx + 1],
                                        n_iterations, n_attempts, train_instances))
                            @@ results
              /\ finish_order' = Append(finish_order, idx)
              /\ work' = [work EXCEPT !.kmeans = @ + n_attempts]
              /\ UNCHANGED tpc
    /\ UNCHANGED <<trainer, n_subquantizers, n_subquantizer_bits, n_iterations,
                   n_attempts, instances, rng, n_threads, seed, train_instances,
                   local_projection, initial_quantizers, checks_passed>>
    /\ UNCHANGED <<bucketVars, applyVars, projectVars>>

\* Lines 278-283 (and 144 for GaussianOPQ): collect, and the model is built.
ReturnModel ==
    /\ tpc = "train"
    /\ Len(finish_order) = n_subquantizers
    /\ tpc' = "done"
    /\ kind' = trainer
    /\ projection' = local_projection
    /\ quantizer_len' = Len(train_instances[1])
    /\ quantizers' = Collect(results, finish_order)
    /\ constructed' = [kind |-> kind', projection |-> projection',
                       quantizer_len |-> quantizer_len', quantizers |-> quantizers']
    /\ UNCHANGED call
    /\ UNCHANGED <<trainer, n_subquantizers, n_subquantizer_bits, n_iterations,
                   n_attempts, instances, rng, n_threads, seed, train_instances,
                   local_projection, initial_quantizers, running, results,
                   finish_order, work, checks_passed>>
    /\ UNCHANGED <<bucketVars, projectVars>>

NextTrain ==
    \/ CheckOPQ
    \/ ProjectOPQ
    \/ EnterPQ
    \/ CheckPQ
    \/ DrawInitialCentroids
    \/ FanOut
    \/ StartJob
    \/ FinishJob
    \/ ReturnModel

SpecTrain == InitTrain /\ [][NextTrain]_vars

-----------------------------------------------------------------------------
(* create_projection_matrix (460-490), from the return of eigh on *)

\* A matrix whose entry in row i of column k names both: the columns are
\* pairwise distinct, as the eigenvectors of an orthonormal basis are.
LabelledColumns(d) == [i \in 1..d |-> [k \in 1..d |-> EigenUnit * i + k]]

\* The eigenvector matrices eigh may return for a d x d covariance matrix.
EighEigenvectors(d) == {Identity(d), LabelledColumns(d)}

\* The state when create_projection_matrix calls bucket_eigenvalues
\* (line 476): eigh has returned the eigenvalues and the eigenvectors.
InitProject ==
    /\ eigenvalues \in EigenvalueInputs
    /\ n_buckets \in 0..(Len(eigenvalues) + 1)
    /\ BucketInit
    /\ eigen_vectors \in EighEigenvectors(Len(eigenvalues))
    /\ transformations = <<>>
    /\ ApplyIdle
    /\ TrainIdle

\* Lines 478-489: the columns of `transformations` are assigned from the
\* buckets bucket_eigenvalues returned.
AssembleProjection ==
    /\ bpc = "returned"
    /\ bpc' = "projected"
    /\ transformations' = Transformations(eigen_vectors, assignments)
    /\ UNCHANGED <<eigenvalues, n_buckets, panic_msg, eigenvalue_indices,
                   log_eigenvalues, assignments, products, sort_result,
                   iterations_done, eigen_vectors>>
    /\ UNCHANGED <<applyVars, trainVars>>

NextProject ==
    \/ CheckSizes
    \/ SortAndShift
    \/ AssignStep
    \/ ReturnAssignments
    \/ AssembleProjection

SpecProject == InitProject /\ [][NextProject]_vars

-----------------------------------------------------------------------------
(* Claims about bucket_eigenvalues (checked under SpecBucket) *)

SizeInvalid ==
    \/ n_buckets = 0
    \/ Len(eigenvalues) < n_buckets
    \/ Len(eigenvalues) % n_buckets # 0

NegativeInvalid == \E i \in DOMAIN eigenvalues : eigenvalues[i] < 0

ValidBucketInput == ~SizeInvalid /\ ~NegativeInvalid

BucketRunning == bpc \notin {"returned", "panicked"}

\* C1: for every non-negative eigenvalue vector of length D and bucket count M
\* with M > 0, D >= M and D % M = 0, bucket_eigenvalues does not fail, and
\* what it returns is exactly M buckets, each of size D/M, pairwise disjoint,
\* whose union is {0..D-1}.
C1_BucketsPartition ==
    /\ ValidBucketInput => bpc # "panicked"
    /\ bpc = "returned" =>
          /\ Len(assignments) = n_buckets
          /\ \A b \in DOMAIN assignments :
                /\ Len(assignments[b]) = Len(eigenvalues) \div n_buckets
                /\ Cardinality(SeqRange(assignments[b])) = Len(assignments[b])
          /\ \A b, c \in DOMAIN assignments :
                b # c => SeqRange(assignments[b]) \cap SeqRange(assignments[c]) = {}
          /\ UNION { SeqRange(assignments[b]) : b \in DOMAIN assignments }
                = 0..(Len(eigenvalues) - 1)

C1_Witness ==
    /\ bpc = "returned"
    /\ Len(eigenvalues) = 4
    /\ n_buckets = 2
    /\ \E i, j \in DOMAIN eigenvalues : eigenvalues[i] # eigenvalues[j]

\* C9: bucket_eigenvalues fails, and never creates or returns a bucket
\* assignment, when M = 0, D < M, D % M # 0 or some eigenvalue is negative;
\* a size or divisibility violation fails before the indices are sorted and
\* before the eigenvalues are taken to log-space.
C9_InvalidInputsFail ==
    /\ (SizeInvalid \/ NegativeInvalid) =>
          /\ bpc \in {"entry", "sort", "panicked"}
          /\ assignments = <<>>
          /\ products = <<>>
          /\ BucketRunning => ENABLED NextBucket
          /\ bpc = "panicked" => panic_msg # ""
    /\ SizeInvalid =>
          /\ bpc \in {"entry", "panicked"}
          /\ eigenvalue_indices = <<>>
          /\ sort_result = <<>>
          /\ log_eigenvalues = <<>>

C9_Witness ==
    /\ bpc = "panicked"
    /\ eigenvalues = <<2, 6, 4, 1, 3, 5>>
    /\ n_buckets = 4

\* The reference greedy of the claim: the directions in the order `desc`,
\* each put into the bucket that, among those holding fewer than cap
\* members, has the smallest sum of the shifted logs of its members, the
\* lowest bucket on ties.  RefGreedy is the state k directions after asg.
RefSum(bucket, logs) == SumSeq([j \in DOMAIN bucket |-> logs[bucket[j] + 1]])

RefBest(asg, logs, cap) ==
    CHOOSE b \in DOMAIN asg :
        /\ Len(asg[b]) < cap
        /\ \A c \in DOMAIN asg :
              Len(asg[c]) < cap =>
                 \/ RefSum(asg[b], logs) < RefSum(asg[c], logs)
                 \/ (RefSum(asg[b], logs) = RefSum(asg[c], logs) /\ b <= c)

RECURSIVE RefGreedy(_, _, _, _, _)
RefGreedy(asg, desc, logs, cap, k) ==
    IF k = 0 THEN asg
    ELSE RefGreedy([asg EXCEPT ![RefBest(asg, logs, cap)] = Append(@, Head(desc))],
                   Tail(desc), logs, cap, k - 1)

Reverse(s) == [i \in DOMAIN s |-> s[Len(s) + 1 - i]]

\* C10: the directions are taken in descending eigenvalue order, and the
\* returned assignment is the one of the reference greedy, which puts each
\* direction into the lowest-indexed bucket of smallest accumulated shifted
\* log-sum among the buckets holding fewer than D/M members; the two test
\* vectors with 3 buckets give [[1,3],[5,0],[2,4]] and [[4,3],[2,5],[1,0]].
C10_GreedyReference ==
    /\ bpc \in {"assign", "returned"} =>
          /\ \A i, j \in DOMAIN sort_result :
                i < j => eigenvalues[sort_result[i] + 1] <= eigenvalues[sort_result[j] + 1]
          /\ eigenvalue_indices =
                SubSeq(sort_result, 1, Len(eigenvalues) - iterations_done)
    /\ bpc = "returned" =>
          /\ iterations_done = Len(eigenvalues)
          /\ assignments = RefGreedy([b \in 1..n_buckets |-> <<>>], Reverse(sort_result),
                                     log_eigenvalues, Len(eigenvalues) \div n_buckets,
                                     Len(eigenvalues))
    /\ (bpc = "returned" /\ n_buckets = 3 /\ eigenvalues = <<2, 6, 4, 1, 3, 5>>)
          => assignments = << <<1, 3>>, <<5, 0>>, <<2, 4>> >>
    /\ (bpc = "returned" /\ n_buckets = 3
          /\ eigenvalues = <<111740, 234500, 308350, 15570, 324250, 51540>>)
          => assignments = << <<4, 3>>, <<2, 5>>, <<1, 0>> >>

C10_Witness ==
    /\ bpc = "returned"
    /\ n_buckets = 3
    /\ eigenvalues = <<2, 6, 4, 1, 3, 5>>
    /\ assignments = << <<1, 3>>, <<5, 0>>, <<2, 4>> >>

-----------------------------------------------------------------------------
(* Claims about quantize / reconstruct (checked under SpecApply) *)

\* The dimensions of the model as constructed.
NumSub == Len(constructed.quantizers)
SliceDim == Cols(constructed.quantizers[1])
CodebookLen == Len(constructed.quantizers[1])
VectorDim == NumSub * SliceDim

CodeInRange(c) == Len(c) = NumSub /\ \A m \in DOMAIN c : c[m] < CodebookLen

Requantized == call.op = "quantize_vector" /\ call.code # <<>>

DistinctCentroids ==
    \A m \in DOMAIN quantizers : \A r, t \in DOMAIN quantizers[m] :
        r # t => quantizers[m][r] # quantizers[m][t]

\* The lowest centroid index of codebook m (0-based) whose row equals row r.
LowestEqual(m, r) ==
    CHOOSE t \in 0..r :
        /\ quantizers[m][t + 1] = quantizers[m][r + 1]
        /\ \A u \in 0..(t - 1) : quantizers[m][u + 1] # quantizers[m][r + 1]

\* C2 as stated: for any model and any in-range code c,
\* quantize_vector(reconstruct_vector(c)) = c.
C2_RequantizeIsIdentity ==
    Requantized => (call.ok /\ call.ret = call.code)

\* C2 amended: quantize_vector(reconstruct_vector(c)) succeeds and its entry m
\* is the lowest index of codebook m whose centroid equals centroid c[m]; it
\* is c when the centroids of every codebook are pairwise distinct.
C2_RequantizeLowestDuplicate ==
    Requantized =>
        /\ call.ok
        /\ Len(call.ret) = Len(call.code)
        /\ \A m \in DOMAIN call.code : call.ret[m] = LowestEqual(m, call.code[m])
        /\ DistinctCentroids => call.ret = call.code

C2_Witness ==
    /\ Requantized
    /\ DistinctCentroids
    /\ NumSub = 2
    /\ call.code = <<1, 0>>
    /\ call.ret = <<1, 0>>

\* C3: row i of quantize_batch(X) is quantize_vector(row i of X) for every X
\* with D columns, and row i of reconstruct_batch(C) is reconstruct_vector(row
\* i of C) for every C with M columns of in-range entries; the batch call
\* succeeds and has as many rows as its argument.
C3_BatchEqualsRows ==
    /\ (call.op = "quantize_batch" /\ call.arg.cols = VectorDim) =>
          /\ call.ok
          /\ call.ret.cols = NumSub
          /\ Len(call.ret.rows) = Len(call.arg.rows)
          /\ \A i \in DOMAIN call.arg.rows :
                LET one == quantize_vector(kind, projection, quantizers, quantizer_len,
                                           call.arg.rows[i])
                IN  one.ok /\ call.ret.rows[i] = one.val
    /\ (call.op = "reconstruct_batch" /\ call.arg.cols = NumSub
          /\ \A i \in DOMAIN call.arg.rows : CodeInRange(call.arg.rows[i])) =>
          /\ call.ok
          /\ call.ret.cols = VectorDim
          /\ Len(call.ret.rows) = Len(call.arg.rows)
          /\ \A i \in DOMAIN call.arg.rows :
                LET one == reconstruct_vector(kind, projection, quantizers, call.arg.rows[i])
                IN  one.ok /\ call.ret.rows[i] = one.val

C3_Witness ==
    /\ call.op = "quantize_batch"
    /\ call.ok
    /\ NumSub = 2
    /\ Len(call.arg.rows) = 2
    /\ call.ret.rows = << <<0, 1>>, <<1, 0>> >>

\* C7: a quantize call whose input length differs from D, and a reconstruct
\* call whose code length differs from M or that holds an entry >= 2^bits,
\* panics and returns nothing; every other call succeeds; after any sequence
\* of calls the model is the one constructed, so a valid call returns what it
\* returns on the fresh model.
C7_ErrorsAreLocal ==
    /\ CurrentModel = constructed
    /\ call.op = "quantize_vector" =>
          /\ call.ok <=> Len(call.arg) = VectorDim
          /\ call.ok => call.ret = quantize_vector(constructed.kind, constructed.projection,
                                       constructed.quantizers, constructed.quantizer_len,
                                       call.arg).val
    /\ call.op = "quantize_batch" =>
          /\ call.ok <=> call.arg.cols = VectorDim
          /\ call.ok => call.ret = quantize_batch_of(constructed.kind, constructed.projection,
                                       constructed.quantizers, constructed.quantizer_len,
                                       call.arg).val
    /\ call.op = "reconstruct_vector" =>
          /\ call.ok <=> CodeInRange(call.arg)
          /\ call.ok => call.ret = reconstruct_vector(constructed.kind, constructed.projection,
                                       constructed.quantizers, call.arg).val
    /\ call.op = "reconstruct_batch" =>
          /\ call.ok <=> /\ call.arg.cols = NumSub
                         /\ \A i \in DOMAIN call.arg.rows : CodeInRange(call.arg.rows[i])
          /\ call.ok => call.ret = reconstruct_batch_of(constructed.kind,
                                       constructed.projection, constructed.quantizers,
                                       call.arg).val
    /\ ~call.ok => call.ret = <<>>

C7_Witness ==
    /\ call.op = "reconstruct_vector"
    /\ ~call.ok
    /\ Len(call.arg) = NumSub
    /\ kind = "OPQ"
    /\ CurrentModel = constructed

\* C8: for a plain PQ model and a code of length M with entries < 2^bits,
\* reconstruct_vector returns a vector of length D whose components
\* [m*slice_dim, (m+1)*slice_dim) are row code[m] of codebook m.
C8_ReconstructConcatenates ==
    (call.op = "reconstruct_vector" /\ kind = "PQ" /\ CodeInRange(call.arg)) =>
        /\ call.ok
        /\ Len(call.ret) = VectorDim
        /\ \A m \in 0..(NumSub - 1) : \A j \in 1..SliceDim :
              call.ret[m * SliceDim + j] = quantizers[m + 1][call.arg[m + 1] + 1][j]

C8_Witness ==
    /\ call.op = "reconstruct_vector"
    /\ kind = "PQ"
    /\ call.ok
    /\ NumSub = 2
    /\ call.arg = <<1, 0>>
    /\ call.ret = <<1, 0>>
    /\ quantizers = << <<<<0>>, <<1>>>>, <<<<0>>, <<1>>>> >>

-----------------------------------------------------------------------------
(* Claims about training *)

TrainDim == Len(instances[1])

ConfigValid ==
    /\ 1 <= n_subquantizers
    /\ n_subquantizers <= TrainDim
    /\ TrainDim % n_subquantizers = 0
    /\ n_subquantizer_bits >= 1
    /\ n_iterations >= 1
    /\ n_attempts >= 1

NoModel == quantizers = <<>> /\ projection = <<>> /\ constructed = <<>>

\* C4: in PQ and in OPQ training the configuration checks (1 <= M <= D,
\* D % M = 0, bits >= 1, iterations >= 1, attempts >= 1) all run before any
\* draw of initial centroids, k-means run, covariance computation or
\* eigendecomposition: numeric work is only ever done after a call of
\* check_quantizer_invariants has returned, on a valid configuration.  With
\* an invalid configuration the call does no numeric work, cannot stay where
\* it is, ends in a panic, and no model, not even a partial one, exists;
\* no panic of a training call leaves a model behind.
C4_ChecksBeforeNumericWork ==
    tpc # "idle" =>
        /\ work # NoWork => checks_passed >= 1 /\ ConfigValid
        /\ ~ConfigValid =>
              /\ work = NoWork
              /\ checks_passed = 0
              /\ tpc \in {"entry", "pq_entry", "panicked"}
              /\ tpc # "panicked" => ENABLED NextTrain
              /\ NoModel
        /\ tpc = "panicked" => NoModel

C4_Witness ==
    /\ tpc = "panicked"
    /\ trainer = "OPQ"
    /\ 1 <= n_subquantizers
    /\ n_subquantizers <= TrainDim
    /\ TrainDim % n_subquantizers = 0
    /\ n_subquantizer_bits >= 1
    /\ n_iterations >= 1
    /\ n_attempts = 0
    /\ work = NoWork

TrainSliceDim == Len(train_instances[1]) \div n_subquantizers

\* The instance columns [m * slice_dim, (m + 1) * slice_dim).
SliceColumns(m) == ColumnSlice(train_instances, m * TrainSliceDim, TrainSliceDim)

\* C5: after training, for every m in [0, M) the codebook at position m of
\* the model is the one k-means produces on the instance columns
\* [m * slice_dim, (m + 1) * slice_dim) from the initial centroids of
\* subquantizer m, whatever the order in which the jobs completed.
C5_CodebookBySliceIndex ==
    tpc = "done" =>
        /\ Len(quantizers) = n_subquantizers
        /\ \A m \in 0..(n_subquantizers - 1) :
              quantizers[m + 1] =
                  KMeansRun(initial_quantizers[m + 1], SliceColumns(m), n_iterations)

C5_Witness ==
    /\ tpc = "done"
    /\ n_subquantizers >= 2
    /\ finish_order[1] # 0
    /\ quantizers[finish_order[1] + 1] # quantizers[1]
    /\ C5_CodebookBySliceIndex

CodebookLenArg == Pow2(n_subquantizer_bits)

\* The initial centroids of subquantizer m when the draws are made one
\* after the other, in index order, from the stream that starts at `seed`.
SequentialDraw(m) ==
    SelectCentroids(SliceColumns(m), CodebookLenArg, RngAdvance(seed, m * CodebookLenArg))

\* The codebooks as a function of the seed, the instances and the parameters.
SequentialTraining ==
    [m \in 1..n_subquantizers |->
        KMeansRun(SequentialDraw(m - 1), SliceColumns(m - 1), n_iterations)]

\* C6: PQ::train_using draws the initial centroids of the subquantizers from
\* the caller's stream one after the other, in index order (draw m finds the
\* stream where draw m - 1 left it), all of them before a job starts; the
\* jobs leave the stream where the last draw left it; and the codebooks
\* returned are those of the sequential computation from the seed, the
\* instances and the parameters, whatever the interleaving of the jobs and
\* the number of threads.
C6_SequentialDrawsDeterministic ==
    tpc \in {"draw", "train", "done"} =>
        /\ rng = RngAdvance(seed, Len(initial_quantizers) * CodebookLenArg)
        /\ work.select = Len(initial_quantizers)
        /\ \A m \in 1..Len(initial_quantizers) :
              initial_quantizers[m] = SequentialDraw(m - 1)
        /\ (tpc # "draw" \/ running # {} \/ finish_order # <<>>) =>
              Len(initial_quantizers) = n_subquantizers
        /\ tpc = "done" => quantizers = SequentialTraining

C6_Witness ==
    /\ tpc = "done"
    /\ n_subquantizers >= 2
    /\ n_threads >= 2
    /\ finish_order[1] # 0
    /\ rng # seed
    /\ initial_quantizers[1] # initial_quantizers[2]
    /\ quantizers = SequentialTraining

-----------------------------------------------------------------------------
(* Claims about the attempts of train_subquantizer *)

\* C11 (as stated): every trial of every subquantizer draws its own initial
\* centroids, so that a completed training run has called the selector once
\* per (subquantizer, trial) pair, and has run k-means once per pair.
C11_SelectorCalledPerTrial ==
    tpc = "done" =>
        /\ work.select = n_subquantizers * n_attempts
        /\ work.kmeans = n_subquantizers * n_attempts

\* A completed run with two or more attempts in which the selector was
\* called once per subquantizer only, and the attempts of subquantizer 0,
\* all started from that one draw, ended with the same codebook and loss.
C11_Witness ==
    /\ tpc = "done"
    /\ n_attempts >= 2
    /\ work.select = n_subquantizers
    /\ work.kmeans = n_subquantizers * n_attempts
    /\ \A a \in 1..n_attempts :
          Attempts(initial_quantizers[1], SliceColumns(0), n_iterations, n_attempts)[a]
              = kmeans_with_centroids(SliceColumns(0), initial_quantizers[1], n_iterations)

-----------------------------------------------------------------------------
(* Claims about create_projection_matrix *)

\* Column c (from 1) of a matrix given by its rows.
Column(mat, c) == [i \in DOMAIN mat |-> mat[i][c]]

BucketSize == Len(eigenvalues) \div n_buckets

\* C12: the matrix create_projection_matrix builds is a column permutation
\* of the eigenvector matrix.  It is D x D; column j is the eigenvector
\* whose index is element j of bucket 0, bucket 1, ..., bucket M-1
\* concatenated, each in assignment order; every eigenvector is exactly one
\* of its columns; and columns [m * D/M, (m + 1) * D/M) are the directions
\* of bucket m, in the order they were assigned.
C12_ProjectionPermutesEigenvectors ==
    bpc = "projected" =>
        /\ Len(transformations) = Len(eigenvalues)
        /\ \A i \in DOMAIN transformations :
              Len(transformations[i]) = Len(eigenvalues)
        /\ Len(Flatten(assignments)) = Len(eigenvalues)
        /\ \A j \in 1..Len(eigenvalues) :
              Column(transformations, j) =
                  Column(eigen_vectors, Flatten(assignments)[j] + 1)
        /\ \A k \in 1..Len(eigenvalues) :
              Cardinality({ j \in 1..Len(eigenvalues) :
                              Column(transformations, j) = Column(eigen_vectors, k) }) = 1
        /\ \A m \in 0..(n_buckets - 1) :
              /\ Len(assignments[m + 1]) = BucketSize
              /\ \A r \in 1..BucketSize :
                    Column(transformations, m * BucketSize + r) =
                        Column(eigen_vectors, assignments[m + 1][r] + 1)

C12_Witness ==
    /\ bpc = "projected"
    /\ Len(eigenvalues) = 4
    /\ n_buckets = 2
    /\ eigen_vectors = LabelledColumns(4)
    /\ Flatten(assignments) = <<3, 0, 2, 1>>
    /\ Column(transformations, 1) = Column(eigen_vectors, 4)
    /\ Column(transformations, 2) = Column(eigen_vectors, 1)

-----------------------------------------------------------------------------
(* Claims about the assignment loop of bucket_eigenvalues *)

LoopSafe ==
    /\ ValidBucketInput => bpc # "panicked" /\ panic_msg = ""
    /\ (ValidBucketInput /\ bpc = "assign") =>
          /\ eigenvalue_indices # <<>> =>
                \E b \in DOMAIN assignments : Len(assignments[b]) < BucketSize
          /\ \A b \in DOMAIN assignments : Len(assignments[b]) <= BucketSize
          /\ iterations_done + Len(eigenvalue_indices) = Len(eigenvalues)
          /\ Len(Flatten(assignments)) = iterations_done
          /\ ENABLED (AssignStep \/ ReturnAssignments)
    /\ (ValidBucketInput /\ bpc = "returned") =>
          /\ \A b \in DOMAIN assignments : Len(assignments[b]) <= BucketSize
          /\ eigenvalue_indices = <<>>
          /\ iterations_done = Len(eigenvalues)
          /\ SeqRange(Flatten(assignments)) = 0..(Len(eigenvalues) - 1)

LoopStep ==
    (ValidBucketInput /\ bpc = "assign") =>
        \/ /\ bpc' = "assign"
           /\ iterations_done' = iterations_done + 1
           /\ Len(eigenvalue_indices') = Len(eigenvalue_indices) - 1
        \/ /\ bpc' = "returned"
           /\ iterations_done' = iterations_done

\* C13: for every valid input, in every state of the assignment loop a
\* bucket with fewer than D/M members exists whenever a direction remains
\* (the selection of a non-full bucket cannot fail, the call does not
\* panic), no bucket holds more than D/M members, and the loop terminates
\* after exactly D iterations with every direction assigned: the loop can
\* always take its next step, every iteration assigns one direction and
\* leaves one direction fewer, the iterations done and the directions left
\* add up to D, and the only way out of the loop is the return, D
\* iterations done and every direction in a bucket.
C13_LoopSafeAndTerminates == []LoopSafe /\ [][LoopStep]_vars

C13_Witness ==
    /\ bpc = "assign"
    /\ ValidBucketInput
    /\ Len(eigenvalues) = 4
    /\ n_buckets = 2
    /\ Len(assignments[1]) = 2
    /\ Len(assignments[2]) = 0
    /\ Len(eigenvalue_indices) = 2
    /\ iterations_done = 2

=========================================================================
